---- MODULE Spec2Model ----

(***************************************************************************)
(* A model of src/common/list.c: the array-backed list with registered     *)
(* iterators.  Array indices are those of the C code (0-based); slot p of  *)
(* l->arr is element p+1 of the TLA+ sequence arr[l].                      *)
(***************************************************************************)
EXTENDS Integers, Sequences, FiniteSets, TLC

\* The longest list; the handles are 1..MaxSize, each in at most one place.
MaxSize == 3
\* The largest max argument given to list_transfer_max.
MaxMax == 2
\* The slots the allocator has room for in one array: list_realloc returns
\* NULL once an array holds that many.
MaxCapacity == 2 * MaxSize + 2
\* The counts a bulk call is followed up to: above the size of any list a
\* call starts with, and a count past it is kept as MaxCount.
MaxCount == MaxSize + 2

NULL == 0
L1 == 1
L2 == 2
I1 == 1
I2 == 2
T1 == 1
T2 == 2
Lists == {L1, L2}
Iters == {I1, I2}
Threads == {T1, T2}
Handles == 1..MaxSize
Keys == {1, 2}
CmpFs == {"asc", "desc"}

VARIABLES
    arr,        \* arr[l]: the slot array of list l, capacity[l] slots
    size,       \* size[l]: l->size
    capacity,   \* capacity[l]: l->capacity
    fDel,       \* fDel[l]: whether list l has a destructor
    iNext,      \* iNext[l]: the chain of iterators registered on list l
    itr,        \* itr[i]: the listIterator record i (list = NULL: not allocated)
    watched,    \* the calls whose outcome the caller records
    op,         \* the watched call made last ("other": an unwatched one)
    arg,        \* its handle, key or max argument
    rc,         \* its return value
    delCalls,   \* the handles it passed to its callback (l->fDel; f for
                \* list_for_each_max), in call order
    last,       \* last[i]: what cursor i yielded last (history)
    mutex,      \* mutex[l]: the thread holding l->mutex, NULL when unlocked
    nomem,      \* whether list_realloc returns NULL when called
    thr,        \* thr[t]: where thread t stands in the call it is making
    start,      \* the heap when the threads' calls were issued (history)
    yielded     \* yielded[i]: the resident handles a watched list_next or
                \* list_find of cursor i returned since its last reset (history)

vars == <<arr, size, capacity, fDel, iNext, itr, watched, op, arg, rc, delCalls,
          last, mutex, nomem, thr, start, yielded>>

Range(s) == {s[k] : k \in 1..Len(s)}

\* The occupied slots arr[0 .. size-1] of list l in heap h.
Slots(h, l) == [k \in 1..h.size[l] |-> h.arr[l][k]]

\* The heap the operations work on.
Heap == [arr |-> arr, size |-> size, capacity |-> capacity,
         fDel |-> fDel, iNext |-> iNext, itr |-> itr, nomem |-> nomem]

NoItr == [list |-> NULL, pos |-> 0, prev |-> 0]

\* xrealloc: the array resized to n slots, the old contents kept.
list_realloc(a, n) == [k \in 1..n |-> IF k <= Len(a) THEN a[k] ELSE NULL]

\* memmove of n slots from slot src to slot dst of the same array.
memmove(a, dst, src, n) ==
    [k \in 1..Len(a) |->
        IF k - 1 >= dst /\ k - 1 < dst + n THEN a[(k - 1 - dst) + src + 1]
        ELSE a[k]]

\* The iterators on list l's chain.
Chain(h, l) == Range(h.iNext[l])

\* When list_realloc returns NULL, l->capacity is already raised and l->arr
\* is overwritten with NULL (the empty array here) before the -1 return.
_list_grow(h, l) ==
    IF h.size[l] = h.capacity[l]
    THEN LET cap == h.capacity[l] + (IF h.capacity[l] > 1 THEN h.capacity[l] ELSE 1)
         IN IF h.nomem
            THEN [h |-> [h EXCEPT !.capacity[l] = cap, !.arr[l] = <<>>],
                  rc |-> -1]
            ELSE [h |-> [h EXCEPT !.capacity[l] = cap,
                                  !.arr[l] = list_realloc(h.arr[l], cap),
                                  !.size[l] = 1 + h.size[l]],
                  rc |-> cap]
    ELSE [h |-> [h EXCEPT !.size[l] = 1 + h.size[l]], rc |-> h.capacity[l]]

\* With the xassert on n compiled out, a request of no more than the capacity
\* (0 slots for a list just created) gives -1.
_list_reserve(h, l, n) ==
    IF n <= h.capacity[l] THEN [h |-> h, rc |-> -1]
    ELSE IF h.nomem THEN [h |-> [h EXCEPT !.arr[l] = <<>>], rc |-> -1]
    ELSE [h |-> [h EXCEPT !.arr[l] = list_realloc(h.arr[l], n),
                          !.capacity[l] = n],
          rc |-> n]

\* _list_node_create once _list_grow has returned: the slots from p on move
\* up by one, x is stored in slot p and the iterators of the chain are bumped.
node_create_store(g, l, p, x) ==
    LET move_size == (g.size[l] - 1) - p
        a1 == memmove(g.arr[l], p + 1, p, move_size)
        a2 == [a1 EXCEPT ![p + 1] = x]
        g2 == [g EXCEPT !.arr[l] = a2]
        Bump(it) == [it EXCEPT !.prev = IF it.prev = p THEN p + 1 ELSE it.prev,
                               !.pos = IF it.pos = p THEN p + 1 ELSE it.pos]
        itr2 == [j \in DOMAIN g2.itr |->
                    IF j \in Chain(g2, l) THEN Bump(g2.itr[j]) ELSE g2.itr[j]]
    IN [g2 EXCEPT !.itr = itr2]

\* With the xassert on p compiled out, an index past l->size gives NULL.
_list_node_create(h, l, p, x) ==
    IF p < 0 \/ p > h.size[l] THEN [h |-> h, rc |-> NULL, del |-> <<>>]
    ELSE IF _list_grow(h, l).rc < 0
    THEN [h |-> _list_grow(h, l).h, rc |-> NULL, del |-> <<>>]
    ELSE [h |-> node_create_store(_list_grow(h, l).h, l, p, x), rc |-> x, del |-> <<>>]

\* _list_node_destroy without the decrement of l->size.
Mut_list_node_destroy_size(h, l, p) ==
    IF p < 0 \/ p >= h.size[l] THEN [h |-> h, rc |-> NULL, del |-> <<>>]
    ELSE
    LET v == h.arr[l][p + 1]
        move_size == h.size[l] - (p + 1)
        a1 == memmove(h.arr[l], p, p + 1, move_size)
        g == [h EXCEPT !.arr[l] = a1]
        Fix(it) == IF it.pos = p + 1 THEN [it EXCEPT !.pos = p, !.prev = p]
                   ELSE IF it.prev = p + 1 THEN [it EXCEPT !.prev = p]
                   ELSE it
        itr2 == [j \in DOMAIN g.itr |->
                    IF j \in Chain(g, l) THEN Fix(g.itr[j]) ELSE g.itr[j]]
    IN [h |-> [g EXCEPT !.itr = itr2], rc |-> v, del |-> <<>>]

\* node_destroy_shift without the repair of the iterators.
Mut_node_destroy_shift_norepair(h, l, p) ==
    LET move_size == h.size[l] - (p + 1)
        a1 == memmove(h.arr[l], p, p + 1, move_size)
        newsize == IF h.size[l] - 1 > 0 THEN h.size[l] - 1 ELSE 0
    IN [h EXCEPT !.arr[l] = a1, !.size[l] = newsize]

\* _list_node_destroy once *pp has been read: the slots after p move down by
\* one, l->size is decremented and the iterators of the chain are repaired.
node_destroy_shift(h, l, p) ==
    LET move_size == h.size[l] - (p + 1)
        a1 == memmove(h.arr[l], p, p + 1, move_size)
        newsize == IF h.size[l] - 1 > 0 THEN h.size[l] - 1 ELSE 0
        g == [h EXCEPT !.arr[l] = a1, !.size[l] = newsize]
        Fix(it) == IF it.pos = p + 1 THEN [it EXCEPT !.pos = p, !.prev = p]
                   ELSE IF it.prev = p + 1 THEN [it EXCEPT !.prev = p]
                   ELSE it
        itr2 == [j \in DOMAIN g.itr |->
                    IF j \in Chain(g, l) THEN Fix(g.itr[j]) ELSE g.itr[j]]
    IN [g EXCEPT !.itr = itr2]

_list_node_destroy(h, l, p) ==
    IF p < 0 \/ p >= h.size[l] THEN [h |-> h, rc |-> NULL, del |-> <<>>]
    ELSE [h |-> node_destroy_shift(h, l, p), rc |-> h.arr[l][p + 1], del |-> <<>>]

_list_pop_locked(h, l) == _list_node_destroy(h, l, 0)

_list_append_locked(h, l, x) == _list_node_create(h, l, h.size[l], x)

\* _list_next_locked stepping prev whether or not it differs from pos.
Mut_list_next_locked_prev(h, i) ==
    LET it == h.itr[i]
        l == it.list
        prev1 == it.prev + 1
    IN IF it.pos < h.size[l]
       THEN [h |-> [h EXCEPT !.itr[i] = [it EXCEPT !.prev = prev1, !.pos = it.pos + 1]],
             rc |-> h.arr[l][it.pos + 1], del |-> <<>>]
       ELSE [h |-> [h EXCEPT !.itr[i] = [it EXCEPT !.prev = prev1]],
             rc |-> NULL, del |-> <<>>]

_list_next_locked(h, i) ==
    LET it == h.itr[i]
        l == it.list
        prev1 == IF it.prev # it.pos THEN it.prev + 1 ELSE it.prev
    IN IF it.pos < h.size[l]
       THEN [h |-> [h EXCEPT !.itr[i] = [it EXCEPT !.prev = prev1, !.pos = it.pos + 1]],
             rc |-> h.arr[l][it.pos + 1], del |-> <<>>]
       ELSE [h |-> [h EXCEPT !.itr[i] = [it EXCEPT !.prev = prev1]],
             rc |-> NULL, del |-> <<>>]

(***************************************************************************)
(* Callbacks supplied by the caller.                                       *)
(***************************************************************************)
\* A ListFindF: the handles up to the key match.
ListFindF(v, key) == v <= key

\* A ListForF: it fails (returns a negative value) on the handles in farg.
ListForF(v, farg) == IF v \in farg THEN -1 ELSE 0

\* A ListCmpF: "asc" orders handles upwards, "desc" downwards.
ListCmpF(f, x, y) == IF f = "asc" THEN x <= y ELSE x >= y

(***************************************************************************)
(* The public operations, as functions of the heap.  Each gives the heap   *)
(* it leaves, its return value and the handles it passed to l->fDel.       *)
(***************************************************************************)
\* list_create(f) in slot l, which holds no list.
list_create(h, l, f) ==
    [h EXCEPT !.arr[l] = <<>>, !.iNext[l] = <<>>, !.fDel[l] = f,
              !.size[l] = 0, !.capacity[l] = 0]

\* list_destroy frees the iterators of the chain, passes every element to
\* l->fDel and frees the array and the list: slot l holds no list afterwards.
list_destroy(h, l) ==
    LET del == IF h.fDel[l] THEN Slots(h, l) ELSE <<>>
        g == [h EXCEPT !.itr = [j \in DOMAIN h.itr |->
                                   IF j \in Chain(h, l) THEN NoItr ELSE h.itr[j]],
                       !.iNext[l] = <<>>, !.arr[l] = <<>>,
                       !.size[l] = 0, !.capacity[l] = 0]
    IN [h |-> g, rc |-> NULL, del |-> del]

\* memcpy of n slots from the head of array b to the head of array a.
memcpy(a, b, n) == [k \in 1..Len(a) |-> IF k <= n THEN b[k] ELSE a[k]]

\* The copy m is created in a slot that holds no list.  held: the mutexes
\* still locked at the return.
list_shallow_copy(h, l, m) ==
    LET g == list_create(h, m, FALSE)
        r == _list_reserve(g, m, g.size[l])
    IN IF r.rc < 0
       THEN [h |-> r.h, rc |-> NULL, del |-> <<>>, held |-> {l, m}]
       ELSE [h |-> [r.h EXCEPT !.size[m] = g.size[l],
                               !.arr[m] = memcpy(r.h.arr[m], g.arr[l], g.size[l])],
             rc |-> m, del |-> <<>>, held |-> {}]

list_count(h, l) == h.size[l]

list_append(h, l, x) == _list_append_locked(h, l, x)

list_prepend(h, l, x) == _list_node_create(h, l, 0, x)

list_push(h, l, x) == _list_node_create(h, l, 0, x)

list_enqueue(h, l, x) == _list_node_create(h, l, h.size[l], x)

list_pop(h, l) == _list_pop_locked(h, l)

list_dequeue(h, l) == _list_node_destroy(h, l, 0)

RECURSIVE transfer_loop(_, _, _, _, _)
transfer_loop(h, l, sub, max, n) ==
    IF max = 0 \/ n <= max
    THEN LET r == list_pop(h, sub)
         IN IF r.rc # NULL
            THEN transfer_loop(list_append(r.h, l, r.rc).h, l, sub, max, n + 1)
            ELSE [h |-> r.h, rc |-> n, del |-> <<>>]
    ELSE [h |-> h, rc |-> n, del |-> <<>>]

list_transfer_max(h, l, sub, max) == transfer_loop(h, l, sub, max, 0)

list_transfer(h, l, sub) == list_transfer_max(h, l, sub, 0)

RECURSIVE find_first_loop(_, _, _, _)
find_first_loop(h, l, key, p) ==
    IF p < h.size[l]
    THEN IF ListFindF(h.arr[l][p + 1], key) THEN h.arr[l][p + 1]
         ELSE find_first_loop(h, l, key, p + 1)
    ELSE NULL

list_find_first(h, l, key) ==
    [h |-> h, rc |-> find_first_loop(h, l, key, 0), del |-> <<>>]

RECURSIVE remove_first_loop(_, _, _, _)
remove_first_loop(h, l, key, i) ==
    IF i < h.size[l]
    THEN IF ListFindF(h.arr[l][i + 1], key) THEN _list_node_destroy(h, l, i)
         ELSE remove_first_loop(h, l, key, i + 1)
    ELSE [h |-> h, rc |-> NULL, del |-> <<>>]

list_remove_first(h, l, key) == remove_first_loop(h, l, key, 0)

\* The loop of list_delete_all stepping to the next slot after a removal too.
RECURSIVE Mut_delete_all_loop_skip(_, _, _, _, _, _)
Mut_delete_all_loop_skip(h, l, key, i, n, del) ==
    IF i < h.size[l]
    THEN IF ListFindF(h.arr[l][i + 1], key)
         THEN LET r == _list_node_destroy(h, l, i)
              IN Mut_delete_all_loop_skip(r.h, l, key, i + 1, n + 1,
                                          IF h.fDel[l] THEN Append(del, r.rc) ELSE del)
         ELSE Mut_delete_all_loop_skip(h, l, key, i + 1, n, del)
    ELSE [h |-> h, rc |-> n, del |-> del]

RECURSIVE delete_all_loop(_, _, _, _, _, _)
delete_all_loop(h, l, key, i, n, del) ==
    IF i < h.size[l]
    THEN IF ListFindF(h.arr[l][i + 1], key)
         THEN LET r == _list_node_destroy(h, l, i)
              IN delete_all_loop(r.h, l, key, i, n + 1,
                                 IF h.fDel[l] THEN Append(del, r.rc) ELSE del)
         ELSE delete_all_loop(h, l, key, i + 1, n, del)
    ELSE [h |-> h, rc |-> n, del |-> del]

list_delete_all(h, l, key) == delete_all_loop(h, l, key, 0, 0, <<>>)

\* The loop of list_for_each_max from slot p on: n calls made so far, on the
\* handles in calls.
RECURSIVE for_each_loop(_, _, _, _, _, _, _, _, _)
for_each_loop(h, l, max, farg, break_on_fail, p, n, failed, calls) ==
    IF (max = -1 \/ n < max) /\ p < h.size[l]
    THEN LET v == h.arr[l][p + 1]
         IN IF ListForF(v, farg) < 0
            THEN IF break_on_fail
                 THEN [n |-> n + 1, failed |-> TRUE, calls |-> Append(calls, v)]
                 ELSE for_each_loop(h, l, max, farg, break_on_fail, p + 1, n + 1,
                                    TRUE, Append(calls, v))
            ELSE for_each_loop(h, l, max, farg, break_on_fail, p + 1, n + 1,
                               failed, Append(calls, v))
    ELSE [n |-> n, failed |-> failed, calls |-> calls]

\* list_for_each_max going on after a failure though break_on_fail is set.
Mut_list_for_each_max_nobreak(h, l, max, farg, break_on_fail) ==
    LET r == for_each_loop(h, l, max, farg, FALSE, 0, 0, FALSE, <<>>)
    IN [h |-> h,
        rc |-> [n |-> IF r.failed THEN -r.n ELSE r.n, max |-> h.size[l] - r.n],
        del |-> r.calls]

\* rc: the return value n and what the call leaves in *max.
list_for_each_max(h, l, max, farg, break_on_fail) ==
    LET r == for_each_loop(h, l, max, farg, break_on_fail, 0, 0, FALSE, <<>>)
    IN [h |-> h,
        rc |-> [n |-> IF r.failed THEN -r.n ELSE r.n, max |-> h.size[l] - r.n],
        del |-> r.calls]

list_for_each(h, l, farg) == list_for_each_max(h, l, -1, farg, TRUE)

list_for_each_nobreak(h, l, farg) == list_for_each_max(h, l, -1, farg, FALSE)

RECURSIVE delete_ptr_loop(_, _, _, _)
delete_ptr_loop(h, l, key, i) ==
    IF i < h.size[l]
    THEN IF h.arr[l][i + 1] = key
         THEN LET r == _list_node_destroy(h, l, i)
              IN [h |-> r.h, rc |-> 1,
                  del |-> IF h.fDel[l] THEN <<r.rc>> ELSE <<>>]
         ELSE delete_ptr_loop(h, l, key, i + 1)
    ELSE [h |-> h, rc |-> 0, del |-> <<>>]

list_delete_ptr(h, l, key) == delete_ptr_loop(h, l, key, 0)

\* The loops of list_flush, list_sort and list_flip that send every iterator
\* of the chain back to the head.
\* The reset loop setting pos and leaving prev.
Mut_ResetItrs_pos(h, l) ==
    LET ToHead(it) == [it EXCEPT !.pos = 0]
    IN [h EXCEPT !.itr = [j \in DOMAIN h.itr |->
            IF j \in Chain(h, l) THEN ToHead(h.itr[j]) ELSE h.itr[j]]]

ResetItrs(h, l) ==
    LET ToHead(it) == [it EXCEPT !.pos = 0, !.prev = 0]
    IN [h EXCEPT !.itr = [j \in DOMAIN h.itr |->
            IF j \in Chain(h, l) THEN ToHead(h.itr[j]) ELSE h.itr[j]]]

\* list_flush calling the destructor on all elements but the first.
Mut_list_flush_skip(h, l) ==
    LET del == IF h.fDel[l] THEN SubSeq(Slots(h, l), 2, h.size[l]) ELSE <<>>
        n == Len(del)
        g == [h EXCEPT !.size[l] = 0]
    IN [h |-> ResetItrs(g, l), rc |-> n, del |-> del]

list_flush(h, l) ==
    LET del == IF h.fDel[l] THEN Slots(h, l) ELSE <<>>
        n == Len(del)
        g == [h EXCEPT !.size[l] = 0]
    IN [h |-> ResetItrs(g, l), rc |-> n, del |-> del]

\* qsort under comparator f: the ordered arrangement of the occupied slots.
qsort(s, f) ==
    CHOOSE t \in [1..Len(s) -> Range(s)] :
        /\ \A v \in Range(s) :
              Cardinality({k \in 1..Len(s) : t[k] = v}) =
              Cardinality({k \in 1..Len(s) : s[k] = v})
        /\ \A j, k \in 1..Len(s) : j < k => ListCmpF(f, t[j], t[k])

list_sort(h, l, f) ==
    IF h.size[l] <= 1 THEN [h |-> h, rc |-> NULL, del |-> <<>>]
    ELSE
    LET t == qsort(Slots(h, l), f)
        a == [k \in 1..Len(h.arr[l]) |-> IF k <= h.size[l] THEN t[k] ELSE h.arr[l][k]]
        g == [h EXCEPT !.arr[l] = a]
    IN [h |-> ResetItrs(g, l), rc |-> NULL, del |-> <<>>]

list_flip(h, l) ==
    IF h.size[l] <= 1 THEN [h |-> h, rc |-> NULL, del |-> <<>>]
    ELSE
    LET n == h.size[l]
        \* the swaps of slots index and size-1-index, for index < size/2
        a == [k \in 1..Len(h.arr[l]) |->
                IF (k - 1 < n \div 2) \/ (k - 1 >= n - (n \div 2) /\ k - 1 < n)
                THEN h.arr[l][(n - 1 - (k - 1)) + 1]
                ELSE h.arr[l][k]]
        g == [h EXCEPT !.arr[l] = a]
    IN [h |-> ResetItrs(g, l), rc |-> NULL, del |-> <<>>]

list_iterator_create(h, l, i) ==
    [h |-> [h EXCEPT !.itr[i] = [list |-> l, pos |-> 0, prev |-> 0],
                     !.iNext[l] = <<i>> \o h.iNext[l]],
     rc |-> i, del |-> <<>>]

list_iterator_reset(h, i) ==
    [h |-> [h EXCEPT !.itr[i] = [h.itr[i] EXCEPT !.pos = 0, !.prev = 0]],
     rc |-> NULL, del |-> <<>>]

list_iterator_destroy(h, i) ==
    LET l == h.itr[i].list
        chain == h.iNext[l]
    IN [h |-> [h EXCEPT !.iNext[l] = SelectSeq(chain, LAMBDA j : j # i),
                        !.itr[i] = NoItr],
        rc |-> NULL, del |-> <<>>]

list_next(h, i) == _list_next_locked(h, i)

\* list_peek_next returns without unlocking the mutex it locked.
list_peek_next(h, i) ==
    LET l == h.itr[i].list
    IN [h |-> h,
        rc |-> IF h.itr[i].pos < h.size[l] THEN h.arr[l][h.itr[i].pos + 1] ELSE NULL,
        del |-> <<>>, held |-> {l}]

list_insert(h, i, x) == _list_node_create(h, h.itr[i].list, h.itr[i].prev, x)

RECURSIVE find_loop(_, _, _)
find_loop(h, i, key) ==
    LET r == _list_next_locked(h, i)
    IN IF r.rc # NULL /\ ~ListFindF(r.rc, key) THEN find_loop(r.h, i, key) ELSE r

list_find(h, i, key) == find_loop(h, i, key)

list_remove(h, i) ==
    IF h.itr[i].prev # h.itr[i].pos
    THEN _list_node_destroy(h, h.itr[i].list, h.itr[i].prev)
    ELSE [h |-> h, rc |-> NULL, del |-> <<>>]

\* A caller's loop over cursor i: list_next until it returns NULL, with
\* list_remove after each yield of a handle in drop.  seen: the yields so far.
RECURSIVE traverse_removing(_, _, _, _)
traverse_removing(h, i, drop, seen) ==
    LET r == list_next(h, i)
    IN IF r.rc = NULL THEN [h |-> r.h, rc |-> seen, del |-> <<>>]
       ELSE traverse_removing(IF r.rc \in drop THEN list_remove(r.h, i).h ELSE r.h,
                              i, drop, Append(seen, r.rc))

\* list_delete_item removing the item without passing it to l->fDel.
Mut_list_delete_item_nodel(h, i) ==
    LET r == list_remove(h, i)
    IN [h |-> r.h, rc |-> IF r.rc # NULL THEN 1 ELSE 0, del |-> <<>>]

list_delete_item(h, i) ==
    LET r == list_remove(h, i)
    IN IF r.rc # NULL
       THEN [h |-> r.h, rc |-> 1,
             del |-> IF h.fDel[h.itr[i].list] THEN <<r.rc>> ELSE <<>>]
       ELSE [h |-> r.h, rc |-> 0, del |-> <<>>]

\* One pass of the while loop of list_append_list(l, sub) with its cursor itr
\* on sub and its count n: list_next, then list_append of what it yielded.
\* more: whether the loop goes on to another pass.
append_list_pass(h, l, i, n) ==
    LET r == list_next(h, i)
        a == list_append(r.h, l, r.rc)
    IN IF r.rc = NULL THEN [h |-> r.h, n |-> n, more |-> FALSE]
       ELSE IF a.rc # NULL THEN [h |-> a.h, n |-> n + 1, more |-> TRUE]
       ELSE [h |-> a.h, n |-> n, more |-> FALSE]

\* One pass of the while loop of list_transfer_max(l, sub, max) with its
\* count n: the test, list_pop(sub), then list_append of what it popped.
transfer_max_pass(h, l, sub, max, n) ==
    LET r == list_pop(h, sub)
    IN IF ~(max = 0 \/ n <= max) THEN [h |-> h, n |-> n, more |-> FALSE]
       ELSE IF r.rc = NULL THEN [h |-> r.h, n |-> n, more |-> FALSE]
       ELSE [h |-> list_append(r.h, l, r.rc).h, n |-> n + 1, more |-> TRUE]

(***************************************************************************)
(* The state machine: one action per public call.                          *)
(***************************************************************************)
\* The handles resident in some list: a caller inserts a handle it holds.
Resident == UNION {Range(Slots(Heap, l)) : l \in Lists}

\* What last[i] holds once the element cursor i yielded has left its list.
Stale == NULL - 1

\* No operation reads a slot at or past l->size before writing it: what such
\* a slot holds is not part of the state.
Unread(h, l) == [k \in 1..Len(h.arr[l]) |-> IF k <= h.size[l] THEN h.arr[l][k] ELSE NULL]

\* Call o with argument a leaves heap r.h, returned r.rc and destroyed r.del,
\* which are recorded when o is a watched call; ln is what each cursor yielded last,
\* forgotten (Stale) once that element has left the cursor's list.
Record(r, o, a, ln) ==
    /\ arr' = [l \in Lists |-> Unread(r.h, l)]
    /\ size' = r.h.size
    /\ capacity' = r.h.capacity
    /\ fDel' = r.h.fDel
    /\ iNext' = r.h.iNext
    /\ itr' = r.h.itr
    /\ watched' = watched
    /\ op' = IF o \in watched THEN o ELSE "other"
    /\ arg' = IF o \in watched THEN a ELSE NULL
    /\ rc' = IF o \in watched THEN r.rc ELSE NULL
    /\ delCalls' = IF o \in watched THEN r.del ELSE <<>>
    /\ last' = [i \in Iters |->
          IF ln[i] \in Handles /\
             (\/ r.h.itr[i].list = NULL
              \/ Len(r.h.arr[r.h.itr[i].list]) < r.h.size[r.h.itr[i].list]
              \/ ln[i] \notin Range(Slots(r.h, r.h.itr[i].list)))
          THEN Stale ELSE ln[i]]

\* The yields ys that are still yields of a bound cursor and resident in
\* its list in heap h.
Kept(h, ys) ==
    [i \in Iters |->
        IF ys[i] = {} \/ h.itr[i].list = NULL THEN {}
        ELSE IF Len(h.arr[h.itr[i].list]) < h.size[h.itr[i].list] THEN {}
        ELSE ys[i] \cap Range(Slots(h, h.itr[i].list))]

\* A call that returns with every mutex it locked unlocked again; ys is what
\* each cursor has yielded once the call has returned.
CommitYield(r, o, a, ln, ys) ==
    /\ Record(r, o, a, ln)
    /\ yielded' = Kept(r.h, ys)
    /\ UNCHANGED <<mutex, nomem, thr, start>>

\* A call that yields nothing and restarts no cursor.
Commit(r, o, a, ln) == CommitYield(r, o, a, ln, yielded)

\* A call by thread t that returns holding the mutexes of the lists in held.
CommitHolding(r, o, a, ln, t, held) ==
    /\ Record(r, o, a, ln)
    /\ mutex' = [l \in Lists |-> IF l \in held THEN t ELSE mutex[l]]
    /\ yielded' = Kept(r.h, yielded)
    /\ UNCHANGED <<nomem, thr, start>>

\* A slurm_mutex_lock that returns whether or not the mutex is held.
Mut_Unlocked_always(l) == TRUE

\* slurm_mutex_lock(&l->mutex) returns once no thread holds the mutex.
Unlocked(l) == mutex[l] = NULL

\* l->arr points to l->capacity slots.
Usable(l) == Len(arr[l]) = capacity[l]

\* A call on list l that returns: the mutex is free, and the array was not
\* lost (any access to the slots of a lost array is undefined, and a caller
\* makes no further call on such a list).
Callable(l) == Usable(l) /\ Unlocked(l)

\* A thread that is in no call.  call: the public function it runs, with
\* arguments l, sub, max and x; prim: the list_pop or list_append that
\* list_transfer_max is in, or the call itself; m: the list prim works on;
\* p and v: the locals of _list_node_create and _list_node_destroy; n: the
\* count of list_transfer_max; rc: the value returned.
Idle == [pc |-> "idle", call |-> "none", l |-> NULL, sub |-> NULL, max |-> 0,
         x |-> NULL, prim |-> "none", m |-> NULL, p |-> 0, v |-> NULL, n |-> 0,
         rc |-> NULL]

\* Cursors of list l forget what they yielded last (the list was reordered).
Forget(l) == [i \in Iters |-> IF itr[i].list = l THEN Stale ELSE last[i]]

\* Cursors of list l start over: nothing they yielded before counts.
Restart(l) == [i \in Iters |-> IF itr[i].list = l THEN {} ELSE yielded[i]]

\* Cursor i has returned v from watched call o: a yield unless v is NULL.
Yield(i, o, v) ==
    IF o \in watched /\ v # NULL THEN [yielded EXCEPT ![i] = @ \cup {v}]
    ELSE yielded

CanInsert(l, x) == size[l] < MaxSize /\ x \notin Resident

Append_(l, x) ==
    /\ Callable(l)
    /\ CanInsert(l, x)
    /\ Commit(list_append(Heap, l, x), "append", x, last)

Prepend(l, x) ==
    /\ Callable(l)
    /\ CanInsert(l, x)
    /\ Commit(list_prepend(Heap, l, x), "prepend", x, last)

Push(l, x) ==
    /\ Callable(l)
    /\ CanInsert(l, x)
    /\ Commit(list_push(Heap, l, x), "push", x, last)

Enqueue(l, x) ==
    /\ Callable(l)
    /\ CanInsert(l, x)
    /\ Commit(list_enqueue(Heap, l, x), "enqueue", x, last)

Pop(l) ==
    /\ Callable(l)
    /\ Commit(list_pop(Heap, l), "pop", NULL, last)

Dequeue(l) ==
    /\ Callable(l)
    /\ Commit(list_dequeue(Heap, l), "dequeue", NULL, last)

FindFirst(l, key) ==
    /\ Callable(l)
    /\ Commit(list_find_first(Heap, l, key), "find_first", key, last)

RemoveFirst(l, key) ==
    /\ Callable(l)
    /\ Commit(list_remove_first(Heap, l, key), "remove_first", key, last)

DeleteAll(l, key) ==
    /\ Callable(l)
    /\ Commit(list_delete_all(Heap, l, key), "delete_all", key, last)

DeletePtr(l, key) ==
    /\ Callable(l)
    /\ Commit(list_delete_ptr(Heap, l, key), "delete_ptr", key, last)

Flush(l) ==
    /\ Callable(l)
    /\ Commit(list_flush(Heap, l), "flush", NULL, last)

Sort(l, f) ==
    /\ Callable(l)
    /\ CommitYield(list_sort(Heap, l, f), "sort", NULL, Forget(l), Restart(l))

Flip(l) ==
    /\ Callable(l)
    /\ CommitYield(list_flip(Heap, l), "flip", NULL, Forget(l), Restart(l))

\* xassert(l->fDel == sub->fDel); a transfer of a list onto itself with no
\* maximum never returns.
TransferMax(l, sub, max) ==
    /\ Callable(l) /\ Callable(sub)
    /\ fDel[l] = fDel[sub]
    /\ ~(l = sub /\ max = 0 /\ size[sub] > 0)
    /\ Commit(list_transfer_max(Heap, l, sub, max), "transfer_max", max, last)

Transfer(l, sub) ==
    /\ Callable(l) /\ Callable(sub)
    /\ fDel[l] = fDel[sub]
    /\ ~(l = sub /\ size[sub] > 0)
    /\ Commit(list_transfer(Heap, l, sub), "transfer", NULL, last)

IteratorCreate(l, i) ==
    /\ itr[i].list = NULL
    /\ Callable(l)
    /\ Commit(list_iterator_create(Heap, l, i), "iterator_create", NULL,
              [last EXCEPT ![i] = NULL])

IteratorReset(i) ==
    /\ itr[i].list # NULL
    /\ Callable(itr[i].list)
    /\ CommitYield(list_iterator_reset(Heap, i), "iterator_reset", NULL,
                   [last EXCEPT ![i] = NULL], [yielded EXCEPT ![i] = {}])

IteratorDestroy(i) ==
    /\ itr[i].list # NULL
    /\ Callable(itr[i].list)
    /\ Commit(list_iterator_destroy(Heap, i), "iterator_destroy", NULL,
              [last EXCEPT ![i] = NULL])

Next_(i) ==
    /\ itr[i].list # NULL
    /\ Callable(itr[i].list)
    /\ LET r == list_next(Heap, i)
       IN CommitYield(r, "next", NULL, [last EXCEPT ![i] = r.rc],
                      Yield(i, "next", r.rc))

Find(i, key) ==
    /\ itr[i].list # NULL
    /\ Callable(itr[i].list)
    /\ LET r == list_find(Heap, i, key)
       IN CommitYield(r, "find", key, [last EXCEPT ![i] = r.rc],
                      Yield(i, "find", r.rc))

Insert(i, x) ==
    /\ itr[i].list # NULL
    /\ Callable(itr[i].list)
    /\ CanInsert(itr[i].list, x)
    /\ Commit(list_insert(Heap, i, x), "insert", x, last)

Remove(i) ==
    /\ itr[i].list # NULL
    /\ Callable(itr[i].list)
    /\ Commit(list_remove(Heap, i), "remove", NULL,
              [last EXCEPT ![i] = NULL])

DeleteItem(i) ==
    /\ itr[i].list # NULL
    /\ Callable(itr[i].list)
    /\ Commit(list_delete_item(Heap, i), "delete_item", NULL,
              [last EXCEPT ![i] = NULL])

ForEachMax(l, max, fails, break_on_fail) ==
    /\ Callable(l)
    /\ Commit(list_for_each_max(Heap, l, max, fails, break_on_fail),
              "for_each_max", [max |-> max, fails |-> fails, brk |-> break_on_fail],
              last)

ForEach(l, fails) ==
    /\ Callable(l)
    /\ Commit(list_for_each(Heap, l, fails),
              "for_each", [max |-> -1, fails |-> fails, brk |-> TRUE], last)

ForEachNobreak(l, fails) ==
    /\ Callable(l)
    /\ Commit(list_for_each_nobreak(Heap, l, fails),
              "for_each_nobreak", [max |-> -1, fails |-> fails, brk |-> FALSE], last)

PeekNext(i) ==
    /\ itr[i].list # NULL
    /\ Callable(itr[i].list)
    /\ LET r == list_peek_next(Heap, i)
       IN CommitHolding(r, "peek_next", NULL, last, T1, r.held)

\* The allocator runs out of memory, or has memory again.
Exhaust ==
    /\ ~nomem
    /\ nomem' = TRUE
    /\ op' = "other" /\ arg' = NULL /\ rc' = NULL /\ delCalls' = <<>>
    /\ UNCHANGED <<arr, size, capacity, fDel, iNext, itr, watched, last, mutex, thr,
                   start, yielded>>

Replenish ==
    /\ nomem
    /\ nomem' = FALSE
    /\ op' = "other" /\ arg' = NULL /\ rc' = NULL /\ delCalls' = <<>>
    /\ UNCHANGED <<arr, size, capacity, fDel, iNext, itr, watched, last, mutex, thr,
                   start, yielded>>

(***************************************************************************)
(* Calls made by threads running together.  A call is a sequence of        *)
(* steps: slurm_mutex_lock, the two halves of _list_node_create (the       *)
(* growth; the move and the store) or of _list_node_destroy (the read; the *)
(* move and the decrement), slurm_mutex_unlock and the return.             *)
(***************************************************************************)
Inserting == {"append", "prepend", "enqueue"}

Removing == {"pop", "dequeue"}

\* No thread is inside a call.
Quiet == \A t \in Threads : thr[t].pc \in {"idle", "done"}

Install(h) ==
    /\ arr' = [l \in Lists |-> Unread(h, l)]
    /\ size' = h.size
    /\ capacity' = h.capacity
    /\ fDel' = h.fDel
    /\ iNext' = h.iNext
    /\ itr' = h.itr

\* Thread t entering call c.  list_transfer_max passes its loop test for
\* n = 0 and starts with list_pop(sub).
Begin(c, l, sub, max, x) ==
    [Idle EXCEPT !.pc = "lock", !.call = c, !.l = l, !.sub = sub, !.max = max,
                 !.x = x,
                 !.prim = IF c = "transfer_max" THEN "pop" ELSE c,
                 !.m = IF c = "transfer_max" THEN sub ELSE l]

\* The call has returned r.
Done(c, r) ==
    [Idle EXCEPT !.pc = "done", !.call = c.call, !.l = c.l, !.sub = c.sub,
                 !.max = c.max,
                 !.x = IF c.call = "transfer_max" THEN NULL ELSE c.x,
                 !.rc = r]

\* What the caller does when list_pop or list_append has returned c.v: a single
\* call returns it; list_transfer_max appends what it popped, counts what it
\* appended and tests (!max || n <= max) before the next list_pop.
AfterPrimitive(c) ==
    IF c.call # "transfer_max" THEN Done(c, c.v)
    ELSE IF c.prim = "pop"
    THEN IF c.v # NULL
         THEN [c EXCEPT !.pc = "lock", !.prim = "append", !.m = c.l, !.x = c.v,
                        !.v = NULL, !.p = 0]
         ELSE Done(c, c.n)
    ELSE IF c.max = 0 \/ c.n + 1 <= c.max
         THEN [c EXCEPT !.pc = "lock", !.prim = "pop", !.m = c.sub, !.x = NULL,
                        !.v = NULL, !.p = 0, !.n = c.n + 1]
         ELSE Done(c, c.n + 1)

\* The unlock left out after the list_pop of list_transfer_max.
Mut_slurm_mutex_unlock_pop(t, m) ==
    IF thr[t].call = "transfer_max" /\ thr[t].prim = "pop" THEN mutex
    ELSE [mutex EXCEPT ![m] = NULL]

\* slurm_mutex_unlock by thread t on the mutex of list m.
slurm_mutex_unlock(t, m) == [mutex EXCEPT ![m] = NULL]

Lock(t) ==
    /\ thr[t].pc = "lock"
    /\ Unlocked(thr[t].m)
    /\ mutex' = [mutex EXCEPT ![thr[t].m] = t]
    /\ thr' = [thr EXCEPT ![t].pc = IF thr[t].prim \in Inserting THEN "grow" ELSE "read"]
    /\ UNCHANGED <<arr, size, capacity, fDel, iNext, itr, watched, op, arg, rc,
                   delCalls, last, nomem, start, yielded>>

Grow(t) ==
    /\ thr[t].pc = "grow"
    /\ LET m == thr[t].m
           p == IF thr[t].prim = "prepend" THEN 0 ELSE size[m]
           r == _list_grow(Heap, m)
       IN /\ Install(r.h)
          /\ thr' = [thr EXCEPT ![t].p = p,
                                ![t].pc = IF r.rc < 0 THEN "unlock" ELSE "store"]
    /\ UNCHANGED <<watched, op, arg, rc, delCalls, last, mutex, nomem, start,
                   yielded>>

Store(t) ==
    /\ thr[t].pc = "store"
    /\ Install(node_create_store(Heap, thr[t].m, thr[t].p, thr[t].x))
    /\ thr' = [thr EXCEPT ![t].v = thr[t].x, ![t].pc = "unlock"]
    /\ UNCHANGED <<watched, op, arg, rc, delCalls, last, mutex, nomem, start,
                   yielded>>

Read(t) ==
    /\ thr[t].pc = "read"
    /\ thr' = [thr EXCEPT
          ![t].p = 0,
          ![t].v = IF 0 >= size[thr[t].m] THEN NULL ELSE arr[thr[t].m][1],
          ![t].pc = IF 0 >= size[thr[t].m] THEN "unlock" ELSE "shift"]
    /\ UNCHANGED <<arr, size, capacity, fDel, iNext, itr, watched, op, arg, rc,
                   delCalls, last, mutex, nomem, start, yielded>>

Shift(t) ==
    /\ thr[t].pc = "shift"
    /\ Install(node_destroy_shift(Heap, thr[t].m, thr[t].p))
    /\ thr' = [thr EXCEPT ![t].pc = "unlock"]
    /\ UNCHANGED <<watched, op, arg, rc, delCalls, last, mutex, nomem, start,
                   yielded>>

Unlock(t) ==
    /\ thr[t].pc = "unlock"
    /\ mutex' = slurm_mutex_unlock(t, thr[t].m)
    /\ thr' = [thr EXCEPT ![t] = AfterPrimitive(thr[t])]
    /\ UNCHANGED <<arr, size, capacity, fDel, iNext, itr, watched, op, arg, rc,
                   delCalls, last, nomem, start, yielded>>

\* The calls a thread may make on list l: an insertion of a handle the thread
\* holds, or a removal.
Calls(l) ==
    {Begin(c, l, NULL, 0, x) : c \in Inserting, x \in Handles \ Resident}
        \cup {Begin(c, l, NULL, 0, NULL) : c \in Removing}

\* Every thread makes a call on list l, all at the same time.
IssueTogether(l, cs) ==
    /\ Quiet /\ Callable(l)
    /\ \A t \in Threads : cs[t] \in Calls(l)
    /\ \A t, u \in Threads : (t # u /\ cs[t].x # NULL) => cs[t].x # cs[u].x
    /\ size[l] + Cardinality({t \in Threads : cs[t].x # NULL}) <= MaxSize
    /\ thr' = cs
    /\ start' = Heap
    /\ UNCHANGED <<arr, size, capacity, fDel, iNext, itr, watched, op, arg, rc,
                   delCalls, last, mutex, nomem, yielded>>

\* Thread t makes a call alone.
IssueOne(t, l, c) ==
    /\ Quiet /\ Callable(l)
    /\ c \in Calls(l)
    /\ c.x # NULL => size[l] < MaxSize
    /\ thr' = [u \in Threads |-> IF u = t THEN c ELSE Idle]
    /\ UNCHANGED <<arr, size, capacity, fDel, iNext, itr, watched, op, arg, rc,
                   delCalls, last, mutex, nomem, start, yielded>>

\* Two threads transfer in opposite directions between lists l and sub.
IssueTransfers(l, sub, max) ==
    /\ Quiet /\ Callable(l) /\ Callable(sub)
    /\ l # sub /\ fDel[l] = fDel[sub]
    /\ thr' = [t \in Threads |->
                  IF t = T1 THEN Begin("transfer_max", l, sub, max, NULL)
                  ELSE Begin("transfer_max", sub, l, max, NULL)]
    /\ UNCHANGED <<arr, size, capacity, fDel, iNext, itr, watched, op, arg, rc,
                   delCalls, last, mutex, nomem, start, yielded>>

(***************************************************************************)
(* The bulk calls list_append_list and list_transfer_max, one pass of      *)
(* their loop at a time, made by one thread while no other call runs.      *)
(***************************************************************************)
\* The heap as a call finds it: the allocator is out of memory once the
\* array of some list has MaxCapacity slots.
Allocator(h) ==
    [h EXCEPT !.nomem = h.nomem \/ \E l \in Lists : h.capacity[l] >= MaxCapacity]

\* The heap h is what the step leaves.
InstallAll(h) ==
    /\ Install(h)
    /\ nomem' = h.nomem
    /\ UNCHANGED <<watched, op, arg, rc, delCalls, last, mutex, yielded>>

\* The count n as the model keeps it.
Counted(n) == IF n < MaxCount THEN n ELSE MaxCount

\* List l is as a caller filled it: no bulk call has stored a handle twice.
Plain(l) == size[l] <= MaxSize /\ Cardinality(Range(Slots(Heap, l))) = size[l]

\* Thread T1 is in the loop of a bulk call.
Looping == thr[T1].pc = "loop"

\* The bulk call has returned r; list_append_list has destroyed its cursor.
Return(c, r) ==
    [Idle EXCEPT !.pc = "done", !.call = c.call, !.l = c.l, !.sub = c.sub,
                 !.max = c.max, !.rc = r]

\* The thread fills list l before its first bulk call; it hands out its
\* handles in order (no call here compares handles).
Fill(l, x) ==
    /\ thr[T1].pc = "idle"
    /\ \A y \in Handles \ Resident : x <= y
    /\ Append_(l, x)

\* list_append_list(l, sub) up to its loop: the cursor I1 is created on sub.
AppendListBegin(l, sub) ==
    /\ Quiet
    /\ Callable(l) /\ Callable(sub)
    /\ Plain(l) /\ Plain(sub)
    /\ itr[I1].list = NULL
    /\ InstallAll(list_iterator_create(Heap, sub, I1).h)
    /\ thr' = [thr EXCEPT ![T1] = [Idle EXCEPT !.pc = "loop", !.call = "append_list",
                                               !.l = l, !.sub = sub]]
    /\ start' = Heap

\* list_transfer_max(l, sub, max) up to its loop.
TransferMaxBegin(l, sub, max) ==
    /\ Quiet
    /\ Callable(l) /\ Callable(sub)
    /\ Plain(l) /\ Plain(sub)
    /\ fDel[l] = fDel[sub]
    /\ thr' = [thr EXCEPT ![T1] = [Idle EXCEPT !.pc = "loop", !.call = "transfer_max",
                                               !.l = l, !.sub = sub, !.max = max]]
    /\ start' = Heap
    /\ UNCHANGED <<arr, size, capacity, fDel, iNext, itr, watched, op, arg, rc,
                   delCalls, last, mutex, nomem, yielded>>

\* One pass of the loop of list_append_list, and after the last one
\* list_iterator_destroy and the return of n.
AppendListPass ==
    /\ Looping /\ thr[T1].call = "append_list"
    /\ \E r \in {append_list_pass(Allocator(Heap), thr[T1].l, I1, thr[T1].n)} :
          IF r.more
          THEN /\ InstallAll(r.h)
               /\ thr' = [thr EXCEPT ![T1].n = Counted(r.n)]
          ELSE /\ InstallAll(list_iterator_destroy(r.h, I1).h)
               /\ thr' = [thr EXCEPT ![T1] = Return(thr[T1], r.n)]
    /\ UNCHANGED start

\* One pass of the loop of list_transfer_max, and after the last one the
\* return of n.
TransferMaxPass ==
    /\ Looping /\ thr[T1].call = "transfer_max"
    /\ \E r \in {transfer_max_pass(Allocator(Heap), thr[T1].l, thr[T1].sub,
                                    thr[T1].max, thr[T1].n)} :
          /\ InstallAll(r.h)
          /\ thr' = IF r.more THEN [thr EXCEPT ![T1].n = Counted(r.n)]
                    ELSE [thr EXCEPT ![T1] = Return(thr[T1], r.n)]
    /\ UNCHANGED start

\* The loop run on a cursor that stands at the head of its list.
TraverseRemoving(i, drop) ==
    /\ itr[i].list # NULL
    /\ Callable(itr[i].list)
    /\ itr[i].pos = 0 /\ itr[i].prev = 0
    /\ Commit(traverse_removing(Heap, i, drop, <<>>), "traverse", drop,
              [last EXCEPT ![i] = NULL])

\* A slot with no list in it: list_destroy leaves it so, and what is done to it
\* next is done to the list that list_create puts there.
FreeSlot(m) == capacity[m] = 0 /\ iNext[m] = <<>> /\ mutex[m] = NULL

Destroy(l) ==
    /\ Callable(l)
    /\ Commit(list_destroy(Heap, l), "destroy", NULL,
              [i \in Iters |-> IF itr[i].list = l THEN NULL ELSE last[i]])

ShallowCopy(l, m) ==
    /\ Callable(l)
    /\ m # l /\ FreeSlot(m)
    /\ LET r == list_shallow_copy(Heap, l, m)
       IN CommitHolding(r, "shallow_copy", NULL, last, T1, r.held)

\* list_create(f) for every list, all with the same destructor policy; no
\* iterator exists yet.
InitHeap ==
    /\ arr = [l \in Lists |-> <<>>]
    /\ size = [l \in Lists |-> 0]
    /\ capacity = [l \in Lists |-> 0]
    /\ \E f \in BOOLEAN : fDel = [l \in Lists |-> f]
    /\ iNext = [l \in Lists |-> <<>>]
    /\ itr = [i \in Iters |-> NoItr]
    /\ op = "other"
    /\ arg = NULL
    /\ rc = NULL
    /\ delCalls = <<>>
    /\ last = [i \in Iters |-> NULL]
    /\ mutex = [l \in Lists |-> NULL]
    /\ nomem = FALSE
    /\ thr = [t \in Threads |-> Idle]
    /\ start = Heap
    /\ yielded = [i \in Iters |-> {}]

Init == InitHeap /\ watched = {}

\* One list and one cursor on it: every operation on a single list.
Next ==
    \/ \E x \in Handles : Append_(L1, x)
    \/ \E x \in Handles : Prepend(L1, x)
    \/ \E x \in Handles : Push(L1, x)
    \/ \E x \in Handles : Enqueue(L1, x)
    \/ Pop(L1)
    \/ Dequeue(L1)
    \/ \E key \in Keys : FindFirst(L1, key)
    \/ \E key \in Keys : RemoveFirst(L1, key)
    \/ \E key \in Keys : DeleteAll(L1, key)
    \/ \E key \in Handles : DeletePtr(L1, key)
    \/ Flush(L1)
    \/ \E f \in CmpFs : Sort(L1, f)
    \/ Flip(L1)
    \/ IteratorCreate(L1, I1)
    \/ IteratorReset(I1)
    \/ IteratorDestroy(I1)
    \/ Next_(I1)
    \/ \E key \in Keys : Find(I1, key)
    \/ \E x \in Handles : Insert(I1, x)
    \/ Remove(I1)
    \/ DeleteItem(I1)

Spec == Init /\ [][Next]_vars

\* One list and two cursors on it: a cursor meets the removals made through
\* the list and through the other cursor.
NextPair ==
    \/ \E x \in Handles : Append_(L1, x)
    \/ Pop(L1)
    \/ Dequeue(L1)
    \/ \E i \in Iters : IteratorCreate(L1, i)
    \/ \E i \in Iters : Next_(i)
    \/ \E i \in Iters : Remove(i)

InitPair == InitHeap /\ watched = {"pop", "dequeue", "remove"}

SpecPair == InitPair /\ [][NextPair]_vars

\* Two lists and no cursor: the transfers between lists.
NextTransfer ==
    \/ \E l \in Lists, x \in Handles : Append_(l, x)
    \/ \E l \in Lists : Pop(l)
    \/ \E l \in Lists, sub \in Lists, max \in 0..MaxMax : TransferMax(l, sub, max)
    \/ \E l \in Lists, sub \in Lists : Transfer(l, sub)

InitTransfer == InitHeap /\ watched = {"transfer_max"}

SpecTransfer == InitTransfer /\ [][NextTransfer]_vars

\* The specification of Spec, with the outcome of some calls recorded.
InitBasic ==
    InitHeap /\ watched = {"append", "prepend", "enqueue", "push", "pop", "dequeue"}

SpecBasic == InitBasic /\ [][Next]_vars

InitRemove == InitHeap /\ watched = {"remove"}

SpecRemove == InitRemove /\ [][Next]_vars

InitAppend == InitHeap /\ watched = {"next", "append", "enqueue"}

SpecAppend == InitAppend /\ [][Next]_vars

InitOrder == InitHeap /\ watched = {"sort", "flip"}

SpecOrder == InitOrder /\ [][Next]_vars

InitFlush == InitHeap /\ watched = {"flush"}

SpecFlush == InitFlush /\ [][Next]_vars

\* Every call of one thread on a list, its cursor and its copy: a call on a
\* list whose mutex is locked does not return.
NextMutex ==
    \/ Next
    \/ PeekNext(I1)
    \/ ShallowCopy(L1, L2)
    \/ Destroy(L2)

InitMutex == InitHeap /\ watched = {"peek_next", "shallow_copy"}

SpecMutex == InitMutex /\ [][NextMutex]_vars

\* One list and one cursor, with an allocator that may fail when the array
\* has to grow.
NextAlloc ==
    \/ Exhaust
    \/ Replenish
    \/ \E x \in Handles : Append_(L1, x)
    \/ \E x \in Handles : Prepend(L1, x)
    \/ \E x \in Handles : Push(L1, x)
    \/ \E x \in Handles : Enqueue(L1, x)
    \/ \E x \in Handles : Insert(I1, x)
    \/ Pop(L1)
    \/ IteratorCreate(L1, I1)
    \/ Next_(I1)

InitAlloc ==
    InitHeap /\ watched = {"append", "prepend", "push", "enqueue", "insert"}

SpecAlloc == InitAlloc /\ [][NextAlloc]_vars

\* Two threads, each making one of append, prepend, enqueue, pop and dequeue
\* on the same list at the same time, again and again.
NextThreads ==
    \/ \E cs \in [Threads -> Calls(L1)] : IssueTogether(L1, cs)
    \/ \E t \in Threads : Lock(t)
    \/ \E t \in Threads : Grow(t)
    \/ \E t \in Threads : Store(t)
    \/ \E t \in Threads : Read(t)
    \/ \E t \in Threads : Shift(t)
    \/ \E t \in Threads : Unlock(t)

InitThreads == InitHeap /\ watched = {} /\ ~fDel[L1]

SpecThreads == InitThreads /\ [][NextThreads]_vars

\* Two lists filled by one thread, then two threads running
\* list_transfer_max(L1, L2, max) and list_transfer_max(L2, L1, max) together.
NextCross ==
    \/ \E l \in Lists, x \in Handles \ Resident :
          IssueOne(T1, l, Begin("append", l, NULL, 0, x))
    \/ \E max \in 1..MaxMax : IssueTransfers(L1, L2, max)
    \/ \E t \in Threads : Lock(t)
    \/ \E t \in Threads : Grow(t)
    \/ \E t \in Threads : Store(t)
    \/ \E t \in Threads : Read(t)
    \/ \E t \in Threads : Shift(t)
    \/ \E t \in Threads : Unlock(t)

InitCross == InitHeap /\ watched = {} /\ ~fDel[L1]

SpecCross == InitCross /\ [][NextCross]_vars

\* Every operation on one list, and the traversals of its cursor that remove
\* as they go.
NextTraverse ==
    \/ Next
    \/ \E drop \in SUBSET Handles : TraverseRemoving(I1, drop)

InitTraverse == InitHeap /\ watched = {"traverse"}

SpecTraverse == InitTraverse /\ [][NextTraverse]_vars

InitDeleteAll == InitHeap /\ watched = {"delete_all"}

SpecDeleteAll == InitDeleteAll /\ [][Next]_vars

\* The life of a list: the operations that put elements in, take them out
\* or move them, on the list and through its cursor, up to list_destroy.  The calls recorded are those that take elements out of the
\* list; no other operation has a call of l->fDel in its code.
NextLife ==
    \/ \E x \in Handles : Append_(L1, x)
    \/ \E x \in Handles : Prepend(L1, x)
    \/ \E x \in Handles : Insert(I1, x)
    \/ Pop(L1)
    \/ Dequeue(L1)
    \/ \E key \in Keys : RemoveFirst(L1, key)
    \/ \E key \in Keys : DeleteAll(L1, key)
    \/ \E key \in Handles : DeletePtr(L1, key)
    \/ Flush(L1)
    \/ Flip(L1)
    \/ IteratorCreate(L1, I1)
    \/ IteratorDestroy(I1)
    \/ Next_(I1)
    \/ Remove(I1)
    \/ DeleteItem(I1)
    \/ Destroy(L1)

InitLife ==
    InitHeap /\ watched = {"delete_all", "delete_ptr", "delete_item", "flush",
                           "pop", "dequeue", "remove_first", "remove", "destroy"}

SpecLife == InitLife /\ [][NextLife]_vars

InitInsert == InitHeap /\ watched = {"insert", "remove"}

SpecInsert == InitInsert /\ [][Next]_vars

\* Two lists filled by one thread, which then makes the bulk calls on every
\* pair of them, a list with itself included.  A pass of a loop that can be
\* made is made: the thread keeps running.
NextBulk ==
    \/ \E l \in Lists, x \in Handles : Fill(l, x)
    \/ \E l \in Lists, sub \in Lists : AppendListBegin(l, sub)
    \/ \E l \in Lists, sub \in Lists : TransferMaxBegin(l, sub, 0)
    \/ AppendListPass
    \/ TransferMaxPass

\* xassert(l->fDel == NULL) in list_append_list: the lists have no destructor.
InitBulk == InitHeap /\ watched = {} /\ ~fDel[L1]

SpecBulk ==
    InitBulk /\ [][NextBulk]_vars /\ WF_vars(AppendListPass) /\ WF_vars(TransferMaxPass)

\* One list and one cursor whose yields are kept, under every operation on
\* the list.
InitCursor == InitHeap /\ watched = {"next", "find"}

SpecCursor == InitCursor /\ [][Next]_vars

\* The callbacks tried: failing on no handle, on one, or on all.
FailSets == {{}, Handles} \cup {{x} : x \in Handles}

\* One list visited by list_for_each_max and its two wrappers.
NextForEach ==
    \/ \E x \in Handles : Append_(L1, x)
    \/ Pop(L1)
    \/ \E max \in -1..MaxMax, fails \in FailSets, b \in BOOLEAN :
          ForEachMax(L1, max, fails, b)
    \/ \E fails \in FailSets : ForEach(L1, fails)
    \/ \E fails \in FailSets : ForEachNobreak(L1, fails)

InitForEach == InitHeap /\ watched = {"for_each_max", "for_each", "for_each_nobreak"}

SpecForEach == InitForEach /\ [][NextForEach]_vars

\* A list and its shallow copy: the original is changed after the copy is made.
NextCopy ==
    \/ \E x \in Handles : Append_(L1, x)
    \/ Pop(L1)
    \/ Flush(L1)
    \/ \E f \in CmpFs : Sort(L1, f)
    \/ Flip(L1)
    \/ ShallowCopy(L1, L2)
    \/ Destroy(L2)

InitCopy == InitHeap /\ watched = {"shallow_copy", "destroy"}

SpecCopy == InitCopy /\ [][NextCopy]_vars

(***************************************************************************)
(* What a caller observes of a list.                                       *)
(***************************************************************************)
RECURSIVE next_until_none(_, _)
next_until_none(h, i) ==
    LET r == list_next(h, i)
    IN IF r.rc = NULL THEN <<>> ELSE <<r.rc>> \o next_until_none(r.h, i)

\* What a cursor created now on list l yields, advanced until none.
Traversal(h, l) ==
    LET h0 == [h EXCEPT !.itr = [j \in {I1} |-> NoItr],
                        !.iNext = [ll \in Lists |-> <<>>]]
    IN next_until_none(list_iterator_create(h0, l, I1).h, I1)

Fresh(it) == it.pos = 0 /\ it.prev = 0

Bound(l) == {i \in Iters : itr[i].list = l}

Min(a, b) == IF a < b THEN a ELSE b

\* Sequence s without its element at index k (1-based).
Without(s, k) == [j \in 1..(Len(s) - 1) |-> IF j < k THEN s[j] ELSE s[j + 1]]

(***************************************************************************)
(* The claims.                                                             *)
(***************************************************************************)

\* C1: after any sequence of append/prepend/enqueue/push/pop/dequeue calls,
\* count() is the number of resident elements and a fresh cursor yields
\* exactly them in index order: an insertion at the tail (head) adds its
\* handle at the end (front) of what a fresh cursor yields, a pop or dequeue
\* returns and drops the first, and count() is the length of the traversal.
C1_Step ==
    LET t == Traversal(Heap, L1)
        u == Traversal(Heap', L1)
    IN /\ list_count(Heap', L1) = Len(u)
       /\ op' \in {"append", "enqueue"} => u = Append(t, rc')
       /\ op' \in {"prepend", "push"} => u = <<rc'>> \o t
       /\ op' \in {"pop", "dequeue"} =>
             IF t = <<>> THEN rc' = NULL /\ u = t
             ELSE rc' = Head(t) /\ u = Tail(t)

C1_CountAndTraversal == [][C1_Step]_vars

C1_Witness ==
    /\ op = "dequeue" /\ rc # NULL
    /\ Len(Traversal(Heap, L1)) = 2
    /\ capacity[L1] = 4

\* C2: transfer_max(dest, src, max) with max > 0 pops min(max, |src|)
\* elements from the head of src, appends them to dest in order, leaves the
\* rest in src and returns the number moved; with max = 0 it moves them all.
C2_Step ==
    \A l \in Lists, sub \in Lists, max \in 0..MaxMax :
        (l # sub /\ TransferMax(l, sub, max)) =>
            LET src == Slots(Heap, sub)
                m == IF max = 0 THEN Len(src) ELSE Min(max, Len(src))
            IN /\ rc' = m
               /\ Slots(Heap', l) = Slots(Heap, l) \o SubSeq(src, 1, m)
               /\ Slots(Heap', sub) = SubSeq(src, m + 1, Len(src))

C2_TransferMaxMovesAtMostMax == [][C2_Step]_vars

\* C3: every iterator bound to a list has next_index <= size and
\* last_yielded_index <= size of that list, in every reachable state.
C3_IndicesWithinSize ==
    \A i \in Iters : itr[i].list # NULL =>
        /\ itr[i].pos <= size[itr[i].list]
        /\ itr[i].prev <= size[itr[i].list]

\* C4: every bound iterator has last_yielded_index <= next_index, in every
\* reachable state.
C4_PrevAtMostPos ==
    \A i \in Iters : itr[i].list # NULL => itr[i].prev <= itr[i].pos

\* A cursor whose prev lags its pos by two: removals have repaired it.
C4_Witness ==
    /\ itr[I1].list = L1
    /\ itr[I1].prev + 1 < itr[I1].pos
    /\ itr[I1].pos <= size[L1]

\* The step removes the element at index k of list L1 through a handle other
\* than cursor i: a pop, a dequeue, or a remove through another cursor.
RemovedBehind(i, k) ==
    /\ rc' # NULL
    /\ \/ k = 0 /\ (Pop(L1) \/ Dequeue(L1))
       \/ \E j \in Iters \ {i} : itr[j].list = L1 /\ itr[j].prev = k /\ Remove(j)

\* C5: when a cursor has advanced j >= 2 times and the element at an index
\* k < j-1 is removed through another handle, both its indices decrease by
\* one and its next advance yields the element that was at index j; a cursor
\* still fresh then yields the new head.
C5_Step ==
    \A i \in Iters, k \in 0..MaxSize :
        (/\ itr[i].list = L1
         /\ RemovedBehind(i, k)) =>
            /\ (/\ itr[i].pos >= 2 /\ itr[i].pos <= size[L1]
                /\ itr[i].prev = itr[i].pos - 1
                /\ last[i] = arr[L1][itr[i].pos]
                /\ k < itr[i].pos - 1) =>
                    /\ itr'[i].pos = itr[i].pos - 1
                    /\ itr'[i].prev = itr[i].prev - 1
                    /\ list_next(Heap', i).rc =
                          (IF itr[i].pos < size[L1] THEN arr[L1][itr[i].pos + 1] ELSE NULL)
            /\ (Fresh(itr[i]) /\ last[i] = NULL /\ size[L1] >= 2) =>
                    list_next(Heap', i).rc = arr[L1][2]

C5_RemovalBehindShiftsCursor == [][C5_Step]_vars

\* C6: remove() through a cursor removes exactly the element the cursor
\* yielded last, and removes nothing (returns none, list unchanged) when the
\* cursor has not yielded since its creation, reset or last removal, whatever
\* other handles did to the list between the cursor's advances.
C6_Step ==
    (op' = "remove" /\ itr[I1].list = L1) =>
        LET t == Slots(Heap, L1)
        IN /\ last[I1] \in Handles =>
                /\ rc' = last[I1]
                /\ \E k \in 1..Len(t) : t[k] = last[I1] /\ Slots(Heap', L1) = Without(t, k)
           /\ last[I1] = NULL => rc' = NULL /\ Slots(Heap', L1) = t

C6_RemoveTakesLastYielded == [][C6_Step]_vars

\* C7: when a cursor is exhausted (next_index = size, next() returned none)
\* and an element is then appended, the cursor's next advance yields the
\* appended element.
C7_Step ==
    (/\ op = "next" /\ rc = NULL
     /\ itr[I1].list = L1 /\ itr[I1].pos = size[L1]
     /\ op' \in {"append", "enqueue"}) =>
        list_next(Heap', I1).rc = rc'

C7_AppendUnexhausts == [][C7_Step]_vars

\* C8 as stated: after sort() or flip() on a list of any size, 0 and 1
\* included, every bound iterator is fresh.
C8_Original ==
    [][op' \in {"sort", "flip"} => \A i \in Bound(L1) : Fresh(itr'[i])]_vars

\* C8, amended: after sort() or flip() on a list of two or more elements
\* every bound iterator is fresh; on a list of 0 or 1 elements the call
\* changes neither the list nor any iterator.
C8_Step ==
    op' \in {"sort", "flip"} =>
        IF size[L1] >= 2
        THEN \A i \in Bound(L1) : Fresh(itr'[i])
        ELSE itr' = itr /\ Slots(Heap', L1) = Slots(Heap, L1)

C8_SortFlipReset == [][C8_Step]_vars

C8_Witness ==
    /\ op = "flip" /\ size[L1] = 3
    /\ Bound(L1) # {} /\ \A i \in Bound(L1) : Fresh(itr[i]) /\ last[i] = Stale

\* C9: after flush() the list is empty, the destructor (when set) was called
\* exactly once on each formerly resident element and on nothing else, and
\* every bound iterator is fresh.
C9_Step ==
    op' = "flush" =>
        /\ list_count(Heap', L1) = 0
        /\ Traversal(Heap', L1) = <<>>
        /\ IF fDel[L1]
           THEN /\ Len(delCalls') = size[L1]
                /\ \A v \in Handles :
                     Cardinality({k \in 1..Len(delCalls') : delCalls'[k] = v}) =
                     Cardinality({k \in 1..size[L1] : arr[L1][k] = v})
           ELSE delCalls' = <<>>
        /\ \A i \in Bound(L1) : Fresh(itr'[i])

C9_FlushEmpties == [][C9_Step]_vars

C9_Witness ==
    /\ op = "flush" /\ Len(delCalls) = 3
    /\ Bound(L1) # {} /\ last[I1] = Stale

\* C10: flush() returns the number of elements it removed, the size of the
\* list just before the call, with or without a destructor.
C10_FlushReturnsCount == [][op' = "flush" => rc' = size[L1]]_vars

\* C11: shallow_copy of a list of any size, 0 included, returns a new list
\* whose traversal yields the handles of the original at the moment of the
\* copy, and a later change of the original leaves the copy's sequence as it is.
C11_Step ==
    /\ op' = "shallow_copy" =>
          /\ rc' # NULL
          /\ Traversal(Heap', L2) = Traversal(Heap, L1)
    /\ op' \notin {"shallow_copy", "destroy"} =>
          Traversal(Heap', L2) = Traversal(Heap, L2)

C11_ShallowCopyRoundTrip == [][C11_Step]_vars

\* The copies of lists that hold an element are as C11 says.
C11_NonEmpty ==
    [][(op' = "shallow_copy" /\ size[L1] > 0) =>
          /\ rc' = L2
          /\ Traversal(Heap', L2) = Traversal(Heap, L1)
          /\ mutex' = mutex]_vars

\* The elements a call with limit max may visit: all of them for the "all"
\* value -1, the first max otherwise.
Limit(max, n) == IF max = -1 THEN n ELSE Min(max, n)

\* C12: with break_on_failure set, for_each stops at the first element whose
\* callback returns a negative value: failing at index j it has visited the
\* j+1 elements up to it, in order, and returns -(j+1).  When no callback
\* fails it visits the first min(max_limit, size) elements and returns that count.
C12_Step ==
    op' \in {"for_each_max", "for_each"} =>
       LET s == Slots(Heap, L1)
           m == Limit(arg'.max, Len(s))
           failing == {j \in 0..(m - 1) : s[j + 1] \in arg'.fails}
       IN /\ (failing # {} /\ arg'.brk) =>
                \E j \in failing :
                   /\ \A k \in failing : j <= k
                   /\ delCalls' = SubSeq(s, 1, j + 1)
                   /\ rc'.n = -(j + 1)
          /\ failing = {} =>
                /\ delCalls' = SubSeq(s, 1, m)
                /\ rc'.n = m
          /\ Slots(Heap', L1) = s

C12_ForEachBreaksOnFailure == [][C12_Step]_vars

\* A callback failing on the second of three elements: two visits, -2 returned.
C12_Witness ==
    /\ op = "for_each" /\ size[L1] = 3
    /\ arr[L1][2] \in arg.fails /\ arr[L1][1] \notin arg.fails
    /\ Len(delCalls) = 2 /\ rc.n = -2

\* C13: every public list and iterator operation has released the mutex it
\* acquired when it returns, on every return path (peek_next and the failure
\* path of shallow_copy included): no mutex is held between two calls, so the
\* call made next on the list acquires the lock and completes.
C13_MutexReleasedOnReturn == \A l \in Lists : mutex[l] = NULL

\* C14: when the allocator fails during growth in append, prepend, enqueue,
\* push or insert, the call returns NULL and leaves the list as it was: size,
\* capacity, the element sequence and every iterator index are unchanged.
C14_Step ==
    (/\ op' \in {"append", "prepend", "enqueue", "push", "insert"}
     /\ nomem /\ size[L1] = capacity[L1]) =>
        /\ rc' = NULL
        /\ size' = size
        /\ capacity' = capacity
        /\ arr' = arr
        /\ itr' = itr

C14_FailedGrowthLeavesList == [][C14_Step]_vars

\* What the failed call does keep: it returns NULL, and size and the
\* iterator indices are as before.
C14_Kept ==
    [][(/\ op' \in {"append", "prepend", "enqueue", "push", "insert"}
        /\ nomem /\ size[L1] = capacity[L1]) =>
           (rc' = NULL /\ size' = size /\ itr' = itr)]_vars

\* The public function thread record c calls, applied to heap h.
SingleCall(h, c) ==
    CASE c.call = "append" -> list_append(h, c.l, c.x)
      [] c.call = "prepend" -> list_prepend(h, c.l, c.x)
      [] c.call = "enqueue" -> list_enqueue(h, c.l, c.x)
      [] c.call = "pop" -> list_pop(h, c.l)
      [] c.call = "dequeue" -> list_dequeue(h, c.l)

\* What the calls of the threads leave when thread t's call is made first and
\* thread u's call after it has returned.
InOrder(t, u) ==
    LET r1 == SingleCall(start, thr[t])
        r2 == SingleCall(r1.h, thr[u])
    IN [slots |-> Slots(r2.h, L1), capacity |-> r2.h.capacity[L1],
        rets |-> [w \in Threads |-> IF w = t THEN r1.rc ELSE r2.rc]]

Returned == \A t \in Threads : thr[t].pc = "done" /\ thr[t].call \in Inserting \cup Removing

\* C15: append, prepend, enqueue, pop and dequeue calls made by different
\* threads on the same list at the same time are atomic: once they have all
\* returned, the list and the values returned are those of the calls made one
\* after the other in some order, so no handle is lost, stored twice or
\* returned to two poppers.
C15_ConcurrentCallsAreAtomic ==
    Returned =>
        [slots |-> Slots(Heap, L1), capacity |-> capacity[L1],
         rets |-> [w \in Threads |-> thr[w].rc]] \in {InOrder(T1, T2), InOrder(T2, T1)}

\* A pop and a prepend made together on a list of two elements have returned,
\* with the outcome of the prepend made first: the pop returned the handle
\* prepended.
C15_Witness ==
    /\ Returned
    /\ thr[T1].call = "pop" /\ thr[T2].call = "prepend"
    /\ start.size[L1] = 2
    /\ thr[T1].rc = thr[T2].x
    /\ size[L1] = 2

\* Thread t waits in slurm_mutex_lock for a mutex that thread u holds.
WaitsFor(t, u) == thr[t].pc = "lock" /\ mutex[thr[t].m] = u

\* C16: transfer_max never holds the mutexes of its two lists at the same
\* time, so two threads running transfer_max(A, B, n) and transfer_max(B, A, n)
\* together never reach a state where each waits for a lock the other holds:
\* the holder of a lock a thread waits for is inside list_pop or list_append,
\* on its way to the unlock.
C16_TransfersNeverDeadlock ==
    /\ \A t \in Threads :
          thr[t].call = "transfer_max" => ~(mutex[L1] = t /\ mutex[L2] = t)
    /\ ~(WaitsFor(T1, T2) /\ WaitsFor(T2, T1))
    /\ \A t, u \in Threads :
          WaitsFor(t, u) => thr[u].pc \in {"grow", "store", "read", "shift", "unlock"}

\* Both transfers are under way on lists that hold elements: one thread is
\* inside list_append on one list while the other is inside list_pop on it
\* and waits for its mutex.
C16_Witness ==
    /\ thr[T1].call = "transfer_max" /\ thr[T2].call = "transfer_max"
    /\ thr[T1].prim = "append" /\ thr[T1].pc = "store"
    /\ thr[T2].prim = "pop" /\ WaitsFor(T2, T1)
    /\ thr[T2].n = 1

\* C17: a traversal of a list of distinct handles with one cursor (next until
\* none), with remove called on the cursor after any subset of the yields,
\* visits every element that was resident exactly once, and leaves in the
\* list the elements not removed, in their order, count() being reduced by the
\* number of removals.
C17_Step ==
    op' = "traverse" =>
       LET s == Slots(Heap, L1)
       IN /\ rc' = s
          /\ Slots(Heap', L1) = SelectSeq(s, LAMBDA v : v \notin arg')
          /\ list_count(Heap', L1) = Len(s) - Cardinality(Range(s) \cap arg')

C17_TraverseAndRemove == [][C17_Step]_vars

\* Three elements were visited, the first and the last of them removed.
C17_Witness ==
    /\ op = "traverse" /\ Len(rc) = 3
    /\ arg \cap Range(rc) = {rc[1], rc[3]}
    /\ size[L1] = 1 /\ arr[L1][1] = rc[2]

\* C18: delete_all(predicate, key) terminates, removes every element matching
\* the predicate and no other, keeps the others in their order, calls the
\* destructor (if set) exactly once on each removed element, and returns the
\* number of elements removed.
C18_Step ==
    op' = "delete_all" =>
       LET s == Slots(Heap, L1)
           gone == SelectSeq(s, LAMBDA v : ListFindF(v, arg'))
       IN /\ Slots(Heap', L1) = SelectSeq(s, LAMBDA v : ~ListFindF(v, arg'))
          /\ delCalls' = IF fDel[L1] THEN gone ELSE <<>>
          /\ rc' = Len(gone)

C18_DeleteAll == [][C18_Step]_vars

\* Two matching elements, next to each other and behind a survivor, were
\* destroyed.
C18_Witness ==
    /\ op = "delete_all" /\ arg = 2 /\ rc = 2
    /\ delCalls \in {<<1, 2>>, <<2, 1>>}
    /\ size[L1] = 1 /\ arr[L1][1] = 3

\* The elements of sequence s that are not in set keep, in order.
Leaving(s, keep) == SelectSeq(s, LAMBDA v : v \notin keep)

NoRepeat(s) == \A j, k \in 1..Len(s) : j # k => s[j] # s[k]

\* C19: over the life of a list with a destructor, the destructor is called
\* at most once on any handle: every call of it is on an element that leaves
\* the list in that operation, and on no element twice.  The delete
\* operations (delete_all, delete_ptr, delete_item, flush) call it once on each
\* element they remove, the remove operations (pop, dequeue, remove_first,
\* remove) never call it, and destroy calls it once on each resident element.
C19_Step ==
    LET s == Slots(Heap, L1)
        left == Leaving(s, Range(Slots(Heap', L1)))
    IN /\ NoRepeat(delCalls')
       /\ Range(delCalls') \subseteq Range(left)
       /\ ~fDel[L1] => delCalls' = <<>>
       /\ (fDel[L1] /\ op' \in {"delete_all", "delete_ptr", "delete_item", "flush"}) =>
             delCalls' = left
       /\ op' \in {"pop", "dequeue", "remove_first", "remove"} => delCalls' = <<>>
       /\ (fDel[L1] /\ op' = "destroy") => delCalls' = s

C19_DestructorOncePerHandle == [][C19_Step]_vars

\* A list with a destructor was torn down with two elements resident.
C19_Witness ==
    /\ op = "destroy" /\ fDel[L1]
    /\ Len(delCalls) = 2 /\ delCalls[1] # delCalls[2]
    /\ size[L1] = 0 /\ capacity[L1] = 0

\* C20: an insert of a handle through a cursor followed at once by a remove
\* through the same cursor leaves count() as it was before the pair: the
\* remove takes back the one element the insert added.
C20_Step ==
    (op = "insert" /\ rc # NULL /\ op' = "remove") =>
        list_count(Heap', L1) = list_count(Heap, L1) - 1

C20_InsertThenRemoveKeepsCount == [][C20_Step]_vars

\* The frame effect of list_insert through cursor i with handle x: x is in
\* slot p = i->prev with the elements from p on one slot up, l->size is one
\* more, each index of an iterator on the list that was p is p + 1 and every
\* other iterator index is as it was.
InsertFrame(i, x) ==
    LET l == itr[i].list
        p == itr[i].prev
        t == Slots(Heap, l)
    IN /\ rc' = x
       /\ size'[l] = size[l] + 1
       /\ Slots(Heap', l) = SubSeq(t, 1, p) \o <<x>> \o SubSeq(t, p + 1, Len(t))
       /\ \A j \in Iters :
             IF itr[j].list = l
             THEN /\ itr'[j].list = l
                  /\ itr'[j].pos = (IF itr[j].pos = p THEN p + 1 ELSE itr[j].pos)
                  /\ itr'[j].prev = (IF itr[j].prev = p THEN p + 1 ELSE itr[j].prev)
             ELSE itr'[j] = itr[j]

\* C21: insert_before(I, x) places x at index p = I.last_yielded_index (index
\* 0 when I is fresh), shifts the elements formerly at p.. up by one and
\* increases size by one; afterwards every iterator bound to the list whose
\* next_index or last_yielded_index equalled p has that index increased by
\* one, and every other iterator index is unchanged.
C21_Step ==
    \A i \in Iters, x \in Handles :
        (op' = "insert" /\ Insert(i, x)) => InsertFrame(i, x)

C21_InsertBeforeFrame == [][C21_Step]_vars

\* The same for the cursors whose last_yielded_index is within the list.
C21_WithinSize ==
    [][\A i \in Iters, x \in Handles :
          (/\ op' = "insert" /\ Insert(i, x)
           /\ itr[i].prev <= size[itr[i].list]) => InsertFrame(i, x)]_vars

\* C22: between two resets of an iterator, with no sort, flip or flush in
\* between, the iterator never yields the same resident handle twice, whatever
\* insertions (append, prepend, insert_before) and removals are performed on
\* the list through any handle; all handles in the list are distinct.
C22_Step ==
    \A i \in Iters :
        (/\ op' \in {"next", "find"} /\ rc' # NULL
         /\ (Next_(i) \/ \E key \in Keys : Find(i, key))) =>
            rc' \notin yielded[i]

C22_CursorNeverRepeats == [][C22_Step]_vars

\* The bulk call of thread T1 has returned.
BulkReturned == thr[T1].pc = "done" /\ thr[T1].call \in {"append_list", "transfer_max"}

\* C23: append_list(l, sub) and transfer_max(l, sub, 0) terminate for every
\* pair of list arguments, including when l and sub are the same list, and
\* return a count no greater than the number of elements sub held when the
\* call started.
C23_BulkCallsTerminate ==
    /\ Looping ~> BulkReturned
    /\ [](BulkReturned => thr[T1].rc <= start.size[thr[T1].sub])

\* The calls that never return: the first half of C23.
C23_Terminates == Looping ~> BulkReturned

\* The same for the calls on two different lists, which return the number of
\* elements sub held, sub being left empty by list_transfer_max.
C23_DistinctLists ==
    /\ (Looping /\ thr[T1].l # thr[T1].sub) ~> BulkReturned
    /\ [](BulkReturned /\ thr[T1].l # thr[T1].sub =>
             thr[T1].rc = start.size[thr[T1].sub])

====
